---- MODULE Spec2Model ----
(***************************************************************************)
(* rgdrive: a daemon that mirrors local files to a remote drive.           *)
(*                                                                         *)
(* The repository holds two generations of the same program:               *)
(*   - src/src/bin/lib.rs      the registry library (Tracker, TrackedFile, *)
(*                             DCommand, DResult, DSocket)                 *)
(*   - src/src/bin/rgdrived.rs the daemon (handle_stream, inotify_listen,  *)
(*                             TrackedFiles) speaking the text protocol    *)
(*   - src/src/bin/rgdrive.rs  the client of that daemon                   *)
(*   - src/src/rgdrive.rs      the client built on lib.rs                  *)
(*                                                                         *)
(* Spec       is the Tracker of lib.rs under its environment (the file     *)
(*            system and the inotify instance it owns).                    *)
(* SpecDaemon is the daemon of rgdrived.rs with the client of              *)
(*            bin/rgdrive.rs, the command thread and the watch thread.     *)
(*                                                                         *)
(* Strings are sequences of one-character strings, so that formatting      *)
(* ("{},{}"), splitting (split(",")), and substring tests (contains)       *)
(* are computed as the code computes them.                                 *)
(***************************************************************************)
EXTENDS Naturals, Sequences, FiniteSets, TLC

VARIABLES
    fs,                  \* the regular files that exist (paths)
    tracked_files,       \* Tracker.tracked_files: Vec<TrackedFile>
    inotify,             \* Tracker.inotify: the watches of this session
    tracked_files_path,  \* content of the file at Tracker.tracked_files_path
    last,                \* what is remembered of the registry calls so far
    daemon,              \* rgdrived: "running" or "exited"
    map,                 \* TrackedFiles.map: HashMap<WatchDescriptor, String>
    notify,              \* rgdrived's inotify instance
    events,              \* the events queued in notify, not yet read
    config,              \* content of rgdrived's config file
    conns,               \* connections waiting in the listener's backlog
    handler,             \* the thread running handle_stream
    listener,            \* the thread running inotify_listen
    drive_lock,          \* holder of the Mutex<Drive>
    tf_lock,             \* holder of the Mutex<TrackedFiles>
    cli                  \* what handle_pull reported in the step just taken

----------------------------------------------------------------------------
(* Bounds of the model.                                                    *)

\* Watch descriptors one inotify instance issues before the model stops
\* registering new watches (the kernel's counter is unbounded).
MaxWd == 2

\* Events of one inotify instance that are queued or in the hands of the
\* watch thread; an event beyond that is lost, as when the kernel's queue
\* overflows.
MaxEvents == 1

\* Commands in progress at a time: a client runs only while fewer than
\* MaxConns connections wait in the backlog of the daemon's socket or are
\* being handled.
MaxConns == 1

----------------------------------------------------------------------------
(* Strings.                                                                *)

\* The directory of the model and its two files.  F_at has an extension;
\* F_ce has none and holds the separator of the daemon's "path,url" entries.
Dir  == <<"d">>
F_at == <<"d", "/", "a", ".", "t">>
F_ce == <<"d", "/", "c", ",", "e">>

Paths == {F_at, F_ce}

\* Remote ids (drive urls).
U_x == <<"u", ":", "x">>
U_y == <<"u", ":", "y">>

Urls == {U_x, U_y}

\* A string that Url::parse rejects.
NotUrl == <<"x">>

Letters == {"a", "c", "d", "e", "h", "i", "l", "m", "n", "p", "q", "s", "t",
            "u", "x", "y"}

\* Url::parse succeeds on an absolute URL: letters, then the ":" that ends the
\* scheme.
UrlParses(str) ==
    \E i \in 2..Len(str) : str[i] = ":" /\ \A j \in 1..(i - 1) : str[j] \in Letters

\* str.split(sep).collect(): the fields between the separators.
RECURSIVE Split(_, _)
Split(str, sep) ==
    IF \E i \in 1..Len(str) : str[i] = sep
    THEN LET i == CHOOSE k \in 1..Len(str) :
                      str[k] = sep /\ \A j \in 1..(k - 1) : str[j] # sep
         IN  <<SubSeq(str, 1, i - 1)>> \o Split(SubSeq(str, i + 1, Len(str)), sep)
    ELSE <<str>>

\* str.contains(pat): pat is a substring of str.
Contains(str, pat) ==
    \E i \in 0..Len(str) :
        i + Len(pat) <= Len(str) /\ SubSeq(str, i + 1, i + Len(pat)) = pat

\* format!("{},{}", path, url): an entry of TrackedFiles.map.
Entry(path, url) == path \o <<",">> \o url

\* Path::extension() is Some: the file name has a "." after its first
\* character.
FileName(path) ==
    LET cut == {i \in 1..Len(path) : path[i] = "/"}
    IN  IF cut = {} THEN path
        ELSE SubSeq(path, (CHOOSE i \in cut : \A j \in cut : j <= i) + 1, Len(path))

HasExtension(path) == \E i \in 2..Len(FileName(path)) : FileName(path)[i] = "."

\* The command words of the text protocol.
W_quit   == <<"q", "u", "i", "t">>
W_push   == <<"p", "u", "s", "h">>
W_pull   == <<"p", "u", "l", "l">>
W_sync   == <<"s", "y", "n", "c">>
W_unsync == <<"u", "n", "s", "y", "n", "c">>
W_msg    == <<"m", "s", "g">>
W_ping   == <<"p", "i", "n", "g">>

\* A message that does not hold "ping".
W_hi     == <<"h", "i">>

\* A byte that is not UTF-8.
BadByte == "0xff"

\* format!("push>{}", p), format!("pull>{}>{}", ..), ...: fields joined by ">".
RECURSIVE Join(_)
Join(fields) ==
    IF Len(fields) = 1 THEN fields[1]
    ELSE fields[1] \o <<">">> \o Join(Tail(fields))

\* Option<WatchDescriptor>::None (serde(skip) leaves it after deserializing);
\* Some(wd) is the descriptor wd >= 1.
NoWd == 0

\* The durable file: whether it exists, whether its permissions let the
\* process open it, whether its bytes deserialize, and what they hold.
NoFile == [exists |-> FALSE, open |-> FALSE, intact |-> FALSE, data |-> <<>>]

FileOf(data) == [exists |-> TRUE, open |-> TRUE, intact |-> TRUE, data |-> data]

\* A file whose bytes do not deserialize.
Garbled == [exists |-> TRUE, open |-> TRUE, intact |-> FALSE, data |-> <<>>]

\* The file after its permissions were taken away: it can be neither read
\* nor written, and what it holds is out of the program's reach.
Locked == [exists |-> TRUE, open |-> FALSE, intact |-> FALSE, data |-> <<>>]

----------------------------------------------------------------------------
(* The watch subsystem: one inotify instance.                              *)
(* watches maps each live watch descriptor to the path it was registered   *)
(* for; next is the descriptor the kernel issues next.                     *)

NewInotify == [watches |-> <<>>, next |-> 1]

WdsOf(ino, path) == {w \in DOMAIN ino.watches : ino.watches[w] = path}

\* inotify.add_watch(path, mask): fails when the path does not exist; a path
\* that this instance already watches gives its descriptor back; otherwise
\* the kernel issues the next descriptor.
add_watch(ino, path) ==
    IF path \notin fs
    THEN [ok |-> FALSE, wd |-> NoWd, ino |-> ino]
    ELSE IF WdsOf(ino, path) # {}
    THEN [ok |-> TRUE, wd |-> CHOOSE w \in WdsOf(ino, path) : TRUE, ino |-> ino]
    ELSE [ok |-> TRUE, wd |-> ino.next,
          ino |-> [watches |-> ino.watches @@ (ino.next :> path),
                   next |-> ino.next + 1]]

\* inotify.rm_watch(wd): EINVAL when wd is not a live watch of the instance.
rm_watch(ino, wd) ==
    IF wd \in DOMAIN ino.watches
    THEN [ok |-> TRUE,
          ino |-> [ino EXCEPT !.watches =
                      [w \in DOMAIN ino.watches \ {wd} |-> ino.watches[w]]]]
    ELSE [ok |-> FALSE, ino |-> ino]

\* The kernel drops the watches of a file that is deleted.
DropWatches(ino, path) ==
    [ino EXCEPT !.watches =
        [w \in DOMAIN ino.watches \ WdsOf(ino, path) |-> ino.watches[w]]]

\* add_watch would need a descriptor beyond the bound of the model.
NeedsFreshWd(ino, path) == path \in fs /\ WdsOf(ino, path) = {}

----------------------------------------------------------------------------
(* lib.rs: TrackedFile and its serialized form.                            *)

TrackedFile(url, path, wd) == [drive_url |-> url, path |-> path, wd |-> wd]

\* A serialization that writes the wd field as well.
Serialize_with_wd(tfs) ==
    [i \in 1..Len(tfs) |-> <<tfs[i].drive_url, tfs[i].path, tfs[i].wd>>]

\* bincode::serialize(&self.tracked_files): the fields in declaration order,
\* wd skipped.
Serialize(tfs) == [i \in 1..Len(tfs) |-> <<tfs[i].drive_url, tfs[i].path>>]

\* bincode::deserialize: wd takes its default, None.
Deserialize(buf) == [i \in 1..Len(buf) |-> TrackedFile(buf[i][1], buf[i][2], NoWd)]

----------------------------------------------------------------------------
(* lib.rs: Tracker.                                                        *)

IsTracked(tfs, path) == \E i \in 1..Len(tfs) : tfs[i].path = path

\* Tracker::save: OpenOptions::new().write(true).create_new(true).open(..)?
\* fails with AlreadyExists once the file is there; otherwise the file is
\* created with the serialized list.
save(tfs, file) ==
    IF ~file.exists
    THEN [ok |-> TRUE, file |-> FileOf(Serialize(tfs))]
    ELSE [ok |-> FALSE, file |-> file]

\* The loop of Tracker::init over the deserialized entries: an entry whose
\* watch cannot be registered is skipped.
RECURSIVE InitLoop(_, _, _)
InitLoop(stored, tfs, ino) ==
    IF stored = <<>>
    THEN [tracked_files |-> tfs, ino |-> ino]
    ELSE LET tf == Head(stored)
             r  == add_watch(ino, tf.path)
         IN  IF r.ok
             THEN InitLoop(Tail(stored),
                           Append(tfs, TrackedFile(tf.drive_url, tf.path, r.wd)),
                           r.ino)
             ELSE InitLoop(Tail(stored), tfs, ino)

\* Tracker::init on the durable file `file`: a file that is missing, cannot
\* be opened or does not deserialize leaves the tracker empty.
init(file) ==
    IF ~file.exists \/ ~file.open \/ ~file.intact
    THEN [tracked_files |-> <<>>, ino |-> NewInotify]
    ELSE InitLoop(Deserialize(file.data), <<>>, NewInotify)

\* Tracker::add_path(p, u).
add_path(tfs, ino, file, path, url) ==
    IF IsTracked(tfs, path)
    THEN [ok |-> TRUE, tracked_files |-> tfs, ino |-> ino, file |-> file, wd |-> NoWd]
    ELSE LET r == add_watch(ino, path)
         IN  IF ~r.ok
             THEN [ok |-> FALSE, tracked_files |-> tfs, ino |-> ino, file |-> file,
                   wd |-> NoWd]
             ELSE LET pushed == Append(tfs, TrackedFile(url, path, r.wd))
                      s      == save(pushed, file)
                  IN  [ok |-> s.ok, tracked_files |-> pushed, ino |-> r.ino,
                       file |-> s.file, wd |-> r.wd]

\* The loop of Tracker::remove_path over self.tracked_files.drain(..).  The
\* `?` on rm_watch leaves the function inside the loop: the Drain is dropped,
\* which removes every element of the drained range, and `_tf` is dropped
\* with the entries already kept.
RECURSIVE RemoveLoop(_, _, _, _)
RemoveLoop(rest, kept, ino, path) ==
    IF rest = <<>>
    THEN [ok |-> TRUE, tracked_files |-> kept, ino |-> ino]
    ELSE LET tf == Head(rest)
         IN  IF tf.path = path
             THEN IF tf.wd # NoWd
                  THEN LET r == rm_watch(ino, tf.wd)
                       IN  IF r.ok
                           THEN RemoveLoop(Tail(rest), kept, r.ino, path)
                           ELSE [ok |-> FALSE, tracked_files |-> <<>>, ino |-> ino]
                  ELSE RemoveLoop(Tail(rest), kept, ino, path)
             ELSE RemoveLoop(Tail(rest), Append(kept, tf), ino, path)

\* remove_path that forgets the entries of the path and leaves their watches.
remove_path_keeps_watch(tfs, ino, path) ==
    [ok |-> TRUE,
     tracked_files |-> SelectSeq(tfs, LAMBDA tf : tf.path # path),
     ino |-> ino]

\* Tracker::remove_path(p).  The durable file is not written.
remove_path(tfs, ino, path) == RemoveLoop(tfs, <<>>, ino, path)

----------------------------------------------------------------------------
(* lib.rs: the wire form of DCommand (bincode: the variant index, then     *)
(* each field; a string is its length, then its characters).               *)

DPull(url, path, overwrite) ==
    [tag |-> "Pull", url |-> url, path |-> path, overwrite |-> overwrite]
DPush(path)         == [tag |-> "Push", path |-> path]
DFSync(path, url)   == [tag |-> "FSync", path |-> path, url |-> url]
DFUnSync(path)      == [tag |-> "FUnSync", path |-> path]
DNone               == [tag |-> "None"]
DMessage(text)      == [tag |-> "Message", text |-> text]
DOk                 == [tag |-> "Ok"]
DQuit               == [tag |-> "Quit"]

\* A decoding that failed: bincode::deserialize(..).unwrap() panics.
DPanic              == [tag |-> "panic"]

Variants == <<"Pull", "Push", "FSync", "FUnSync", "None", "Message", "Ok", "Quit">>

VariantIndex(tag) == CHOOSE i \in 1..Len(Variants) : Variants[i] = tag

PutStr(str) == <<Len(str)>> \o str

PutBool(b) == <<IF b THEN "1" ELSE "0">>

\* bincode::serialize(&cmd).
serialize(cmd) ==
    <<VariantIndex(cmd.tag)>> \o
    (CASE cmd.tag = "Pull"    -> PutStr(cmd.url) \o PutStr(cmd.path) \o PutBool(cmd.overwrite)
       [] cmd.tag = "Push"    -> PutStr(cmd.path)
       [] cmd.tag = "FSync"   -> PutStr(cmd.path) \o PutStr(cmd.url)
       [] cmd.tag = "FUnSync" -> PutStr(cmd.path)
       [] cmd.tag = "Message" -> PutStr(cmd.text)
       [] OTHER               -> <<>>)

\* Reads a string at position pos of buf: its length, then that many
\* characters.
GetStr(buf, pos) ==
    IF pos <= Len(buf) /\ buf[pos] \in Nat /\ pos + buf[pos] <= Len(buf)
    THEN [ok |-> TRUE, str |-> SubSeq(buf, pos + 1, pos + buf[pos]),
          next |-> pos + buf[pos] + 1]
    ELSE [ok |-> FALSE, str |-> <<>>, next |-> pos]

GetBool(buf, pos) ==
    IF pos <= Len(buf) /\ buf[pos] \in {"0", "1"}
    THEN [ok |-> TRUE, b |-> buf[pos] = "1"]
    ELSE [ok |-> FALSE, b |-> FALSE]

\* bincode::deserialize::<DCommand>(&buf).unwrap().
deserialize(buf) ==
    IF buf = <<>> \/ buf[1] \notin 1..Len(Variants) THEN DPanic
    ELSE LET tag == Variants[buf[1]]
             f1  == GetStr(buf, 2)
             f2  == GetStr(buf, f1.next)
             f3  == GetBool(buf, f2.next)
         IN  CASE tag = "Pull" ->
                    IF f1.ok /\ f2.ok /\ f3.ok
                    THEN DPull(f1.str, f2.str, f3.b) ELSE DPanic
               [] tag = "Push" -> IF f1.ok THEN DPush(f1.str) ELSE DPanic
               [] tag = "FSync" ->
                    IF f1.ok /\ f2.ok THEN DFSync(f1.str, f2.str) ELSE DPanic
               [] tag = "FUnSync" -> IF f1.ok THEN DFUnSync(f1.str) ELSE DPanic
               [] tag = "Message" -> IF f1.ok THEN DMessage(f1.str) ELSE DPanic
               [] OTHER -> [tag |-> tag]

\* from_stream without the test of buf.len().
from_stream_unchecked(buf) == deserialize(buf)

\* DCommand::from_stream on the bytes read to the end of the stream.
from_stream(buf) == IF Len(buf) > 0 THEN deserialize(buf) ELSE DNone

----------------------------------------------------------------------------
(* rgdrived.rs: TrackedFiles.                                              *)

Put(m, k, v) == [w \in DOMAIN m \cup {k} |-> IF w = k THEN v ELSE m[w]]

Restrict(m, keys) == [w \in keys |-> m[w]]

\* The entries of the map that were added for `path`: "path,<url>".
EntriesFor(m, path) ==
    {w \in DOMAIN m :
        /\ Len(m[w]) > Len(path)
        /\ SubSeq(m[w], 1, Len(path) + 1) = path \o <<",">>}

\* write_saved_inotify_events(&self.map): a missing file is created; the
\* file is truncated and the values of the map are written as a JSON array;
\* a file that cannot be opened for writing is a panic.  The array is kept as
\* the set of its strings: TrackedFiles::from_config reads it into a HashSet.
write_saved_inotify_events(m, file) ==
    IF file.exists /\ ~file.open
    THEN [panicked |-> TRUE, file |-> file]
    ELSE [panicked |-> FALSE, file |-> FileOf({m[w] : w \in DOMAIN m})]

\* The loop of TrackedFiles::from_config over the stored strings, in the
\* order the HashSet yields them.
RECURSIVE FromConfigLoop(_, _, _)
FromConfigLoop(strs, m, ino) ==
    IF strs = <<>>
    THEN [map |-> m, ino |-> ino]
    ELSE LET str  == Head(strs)
             vals == Split(str, ",")
             r    == add_watch(ino, vals[1])
         IN  IF r.ok
             THEN FromConfigLoop(Tail(strs), Put(m, r.wd, str), r.ino)
             ELSE FromConfigLoop(Tail(strs), m, ino)

\* The orders in which a HashSet may yield its elements.
Orders(S) ==
    {seq \in [1..Cardinality(S) -> S] :
        \A i, j \in 1..Cardinality(S) : seq[i] = seq[j] => i = j}

\* The strings serde_json::from_reader gives from_config: none when the file
\* does not parse.
StoredStrings(file) ==
    IF file.exists /\ file.open /\ file.intact THEN file.data ELSE {}

\* TrackedFiles::from_config(notify), the HashSet yielding `order`: a missing
\* file is created empty; a file that cannot be opened is a panic.
from_config(file, order) ==
    IF ~file.exists
    THEN [panicked |-> FALSE, map |-> <<>>, ino |-> NewInotify, file |-> FileOf({})]
    ELSE IF ~file.open
    THEN [panicked |-> TRUE, map |-> <<>>, ino |-> NewInotify, file |-> file]
    ELSE LET r == FromConfigLoop(order, <<>>, NewInotify)
         IN  [panicked |-> FALSE, map |-> r.map, ino |-> r.ino, file |-> file]

\* TrackedFiles::add_path(notify, path, url).  The function returns (): ret
\* is what its caller is given.
TrackedFiles_add_path(m, ino, file, path, url) ==
    LET r == add_watch(ino, path)
    IN  IF r.ok
        THEN LET m2 == Put(m, r.wd, Entry(path, url))
                 w  == write_saved_inotify_events(m2, file)
             IN  [panicked |-> w.panicked, ret |-> "()", map |-> m2,
                  ino |-> r.ino, file |-> w.file]
        ELSE [panicked |-> FALSE, ret |-> "()", map |-> m, ino |-> ino,
              file |-> file]

\* A remove_path that releases the watches and keeps the entries.
TrackedFiles_remove_path_keeps_entries(m, ino, file, path) ==
    LET hit == {w \in DOMAIN m : Contains(m[w], path)}
        w   == write_saved_inotify_events(m, file)
    IN  IF (\E v \in hit : ~rm_watch(ino, v).ok) \/ w.panicked
        THEN [panicked |-> TRUE, map |-> m, ino |-> ino, file |-> file]
        ELSE [panicked |-> FALSE,
              map |-> m,
              ino |-> [ino EXCEPT !.watches = Restrict(ino.watches, DOMAIN ino.watches \ hit)],
              file |-> w.file]

\* TrackedFiles::remove_path(notify, p): every entry whose string contains p
\* is removed; rm_watch(wd).unwrap() panics on a descriptor that is no longer
\* a live watch, and so does a config file that cannot be written.
TrackedFiles_remove_path(m, ino, file, path) ==
    LET hit  == {w \in DOMAIN m : Contains(m[w], path)}
        keep == DOMAIN m \ hit
        w    == write_saved_inotify_events(Restrict(m, keep), file)
    IN  IF (\E v \in hit : ~rm_watch(ino, v).ok) \/ w.panicked
        THEN [panicked |-> TRUE, map |-> m, ino |-> ino, file |-> file]
        ELSE [panicked |-> FALSE,
              map |-> Restrict(m, keep),
              ino |-> [ino EXCEPT !.watches = Restrict(ino.watches, DOMAIN ino.watches \ hit)],
              file |-> w.file]

----------------------------------------------------------------------------
(* bin/rgdrive.rs: the client of the text protocol.                        *)

IsFile(path) == path \in fs

IsDir(path) == path = Dir

Exists(path) == IsFile(path) \/ IsDir(path)

\* handle_pull that does not look at the overwrite flag.
handle_pull_overwrites(url, dest, overwrite) ==
    IF ~UrlParses(url) THEN [sent |-> FALSE, err |-> "invalid_url", text |-> <<>>]
    ELSE IF ~IsFile(dest) /\ ~HasExtension(dest) /\ ~IsDir(dest)
    THEN [sent |-> FALSE, err |-> "no_such_destination", text |-> <<>>]
    ELSE [sent |-> TRUE, err |-> "sent", text |-> Join(<<W_pull, url, dest>>)]

\* handle_pull(vals, overwrite): "sent" with the command text, or the error
\* it reports.
handle_pull(url, dest, overwrite) ==
    IF ~UrlParses(url) THEN [sent |-> FALSE, err |-> "invalid_url", text |-> <<>>]
    ELSE IF IsFile(dest) /\ Exists(dest) /\ ~overwrite
    THEN [sent |-> FALSE, err |-> "exists_no_overwrite", text |-> <<>>]
    ELSE IF ~IsFile(dest) /\ ~HasExtension(dest) /\ ~IsDir(dest)
    THEN [sent |-> FALSE, err |-> "no_such_destination", text |-> <<>>]
    ELSE [sent |-> TRUE, err |-> "sent", text |-> Join(<<W_pull, url, dest>>)]

\* handle_push(p).
handle_push(path) ==
    IF ~Exists(path) THEN [sent |-> FALSE, text |-> <<>>]
    ELSE [sent |-> TRUE, text |-> Join(<<W_push, path>>)]

\* handle_sync(vals).
handle_sync(path, url) ==
    IF ~Exists(path) \/ ~UrlParses(url) THEN [sent |-> FALSE, text |-> <<>>]
    ELSE [sent |-> TRUE, text |-> Join(<<W_sync, path, url>>)]

\* handle_unsync(p).
handle_unsync(path) ==
    IF ~Exists(path) THEN [sent |-> FALSE, text |-> <<>>]
    ELSE [sent |-> TRUE, text |-> Join(<<W_unsync, path>>)]

----------------------------------------------------------------------------
(* rgdrived.rs: handle_stream.                                             *)

\* get_stream_text(stream): read_to_string(..).unwrap() panics on bytes that
\* are not UTF-8.
get_stream_text(buf) ==
    IF \E i \in 1..Len(buf) : buf[i] = BadByte
    THEN [panicked |-> TRUE, text |-> <<>>]
    ELSE [panicked |-> FALSE, text |-> buf]

\* A connection whose client has written nothing yet and keeps its write
\* side open: read_to_string, which is given no timeout, does not return on
\* it.
Stalled == <<"open">>

\* `if text.len() == 0 { return; }`
IsEmptyText(text) == Len(text) = 0

\* The arm `match cmd[0]` takes.
Arm(cmd) ==
    IF cmd[1] = W_quit THEN "quit"
    ELSE IF cmd[1] = W_push THEN "push"
    ELSE IF cmd[1] = W_pull THEN "pull"
    ELSE IF cmd[1] = W_sync THEN "sync"
    ELSE IF cmd[1] = W_unsync THEN "unsync"
    ELSE "other"

\* The command handle_stream acts on: the arm taken and the fields of the
\* split text it reads.  The pull arm reads the url and the destination only,
\* and a text with another first word is dropped.
Decoded(cmd) ==
    CASE Arm(cmd) = "quit"   -> DQuit
      [] Arm(cmd) = "push"   -> DPush(cmd[2])
      [] Arm(cmd) = "pull"   -> [tag |-> "Pull", url |-> cmd[2], path |-> cmd[3]]
      [] Arm(cmd) = "sync"   -> DFSync(cmd[2], cmd[3])
      [] Arm(cmd) = "unsync" -> DFUnSync(cmd[2])
      [] OTHER               -> DNone

\* The arms `EventMask::DELETE => {}` and `_ => {}` of inotify_listen: the
\* map after an event that is no MODIFY.
on_event_untracks(m, ev) == Restrict(m, DOMAIN m \ {ev.wd})

on_event(m, ev) == m

\* The arms `Ok(_) => info!(..)` and `Err(e) => error!(..)` on the result of
\* update_file: the map after the call for the entry of wd.
on_update_result_untracks(m, wd, ok) ==
    IF ok THEN m ELSE Restrict(m, DOMAIN m \ {wd})

on_update_result(m, wd, ok) == m

\* upload_path.read_dir(): the entries of the directory.
ReadDir(path) == IF IsDir(path) THEN fs ELSE {}

----------------------------------------------------------------------------
(* Spec: the Tracker and its environment.                                  *)

\* What is remembered of the registry calls made so far: the last call (its
\* operation and path, whether it returned Ok, whether the path was tracked
\* and whether the durable file existed when it was called), whether the call
\* before it was an add_path of the same path that found it untracked, the
\* descriptor registered for the path (by this add_path, or by the add_path
\* before this remove_path), and the number of add_path/remove_path calls
\* that returned Ok in a row, counted up to 3.
Call(op, path, ok, wd) ==
    [op |-> op, path |-> path, ok |-> ok,
     tracked |-> IsTracked(tracked_files, path),
     had_file |-> tracked_files_path.exists,
     after_add |-> /\ last.op = "add_path"
                   /\ last.path = path
                   /\ ~last.tracked,
     wd |-> wd,
     streak |-> IF ~ok THEN 0
                ELSE IF last.streak < 3 THEN last.streak + 1 ELSE 3]

NoCall ==
    [op |-> "none", path |-> <<>>, ok |-> TRUE, tracked |-> FALSE,
     had_file |-> FALSE, after_add |-> FALSE, wd |-> NoWd, streak |-> 0]

tvars == <<tracked_files, inotify, tracked_files_path, last>>

dvars == <<daemon, map, notify, events, config, conns, handler, listener,
           drive_lock, tf_lock, cli>>

vars == <<fs, tvars, dvars>>

\* A step in which no handle_pull reports anything.
Silent == cli' = "none"

\* handle_stream between two connections.
\* handle_stream between two connections.  cmd is the split command, todo
\* the directory entries not yet uploaded, path and url the arguments of the
\* add_path to come; dir, n, done and failed remember a push (whether it was
\* over a directory, the entries read, the uploads that returned a url, the
\* uploads that failed), remote counts the calls made to the drive, sent is
\* what was written to the stream and call is the last call made to
\* TrackedFiles.
Idle ==
    [pc |-> "accept", cmd |-> <<>>, todo |-> {}, path |-> <<>>, url |-> <<>>,
     dir |-> FALSE, n |-> 0, done |-> {}, failed |-> 0, remote |-> 0,
     sent |-> <<>>, call |-> [op |-> "none"]]

\* inotify_listen with no event in hand.  batch holds the events read and
\* not yet finished; entry, found, calls and failed tell what was done for the
\* event at its head: the entry looked up, the update_file calls made and
\* whether the call returned Err.
Polling ==
    [pc |-> "poll", batch |-> <<>>, entry |-> <<>>, found |-> FALSE,
     calls |-> <<>>, failed |-> FALSE]

\* The state after construction: the files exist; no Tracker has been built
\* and there is no durable file; rgdrived has started on an empty config file
\* (TrackedFiles::from_config creates it), its watch thread is spawned and
\* its command thread waits in listener.incoming().
Init ==
    /\ fs = Paths
    /\ tracked_files = <<>>
    /\ inotify = NewInotify
    /\ tracked_files_path = NoFile
    /\ last = NoCall
    /\ daemon = "running"
    /\ map = <<>>
    /\ notify = NewInotify
    /\ events = <<>>
    /\ config = FileOf({})
    /\ conns = <<>>
    /\ handler = Idle
    /\ listener = Polling
    /\ drive_lock = "free"
    /\ tf_lock = "free"
    /\ cli = "none"

\* The process starts again: Tracker::init() builds a new inotify instance
\* and loads the durable file.
TrackerInit ==
    /\ LET r == init(tracked_files_path)
       IN  /\ tracked_files' = r.tracked_files
           /\ inotify' = r.ino
    /\ last' = [NoCall EXCEPT !.op = "init"]
    /\ UNCHANGED <<fs, tracked_files_path, dvars>>

TrackerAddPath(path, url) ==
    /\ NeedsFreshWd(inotify, path) => inotify.next <= MaxWd
    /\ LET r == add_path(tracked_files, inotify, tracked_files_path, path, url)
       IN  /\ tracked_files' = r.tracked_files
           /\ inotify' = r.ino
           /\ tracked_files_path' = r.file
           /\ last' = Call("add_path", path, r.ok, r.wd)
    /\ UNCHANGED <<fs, dvars>>

TrackerRemovePath(path) ==
    /\ LET r == remove_path(tracked_files, inotify, path)
       IN  /\ tracked_files' = r.tracked_files
           /\ inotify' = r.ino
           /\ last' = Call("remove_path", path, r.ok,
                           IF last.op = "add_path" /\ last.path = path
                           THEN last.wd ELSE NoWd)
    /\ UNCHANGED <<fs, tracked_files_path, dvars>>

\* The kernel appends an event to the queue of the instance: an event equal
\* to the one at the tail is coalesced, and an event that finds the queue
\* full is dropped.
Enqueue(q, ev) ==
    IF q # <<>> /\ q[Len(q)] = ev THEN q
    ELSE IF Len(q) + Len(listener.batch) < MaxEvents THEN Append(q, ev)
    ELSE q

\* IN_IGNORED for each watch that went away.
RECURSIVE EnqueueIgnored(_, _)
EnqueueIgnored(q, wds) ==
    IF wds = {} THEN q
    ELSE LET w == CHOOSE v \in wds : \A u \in wds : v <= u
         IN  EnqueueIgnored(Enqueue(q, [wd |-> w, mask |-> "IGNORED"]), wds \ {w})

\* The environment deletes a file: the kernel drops its watches and queues
\* IN_IGNORED for them.
FsDelete(path) ==
    /\ path \in fs
    /\ fs' = fs \ {path}
    /\ inotify' = DropWatches(inotify, path)
    /\ notify' = DropWatches(notify, path)
    /\ events' = EnqueueIgnored(events, WdsOf(notify, path))
    /\ UNCHANGED <<tracked_files, tracked_files_path, last>>
    /\ Silent
    /\ UNCHANGED <<daemon, map, config, conns, handler, listener,
                   drive_lock, tf_lock>>

\* The environment creates the file again (a new inode).
FsCreate(path) ==
    /\ path \notin fs
    /\ fs' = fs \cup {path}
    /\ Silent
    /\ UNCHANGED <<tvars, daemon, map, notify, events, config, conns, handler,
                   listener, drive_lock, tf_lock>>

\* The environment writes to a file that rgdrived watches: IN_MODIFY.
FsModify(path) ==
    /\ path \in fs
    /\ WdsOf(notify, path) # {}
    /\ events' = Enqueue(events, [wd |-> CHOOSE w \in WdsOf(notify, path) : TRUE,
                                  mask |-> "MODIFY"])
    /\ events' # events
    /\ Silent
    /\ UNCHANGED <<fs, tvars, daemon, map, notify, config, conns, handler,
                   listener, drive_lock, tf_lock>>

\* The environment takes the permissions of the durable file away, deletes
\* it, or leaves bytes in it that do not deserialize.
TrackedFilesLock ==
    /\ tracked_files_path.exists
    /\ tracked_files_path.open
    /\ tracked_files_path' = Locked
    /\ UNCHANGED <<fs, tracked_files, inotify, last, dvars>>

TrackedFilesRemove ==
    /\ tracked_files_path.exists
    /\ tracked_files_path' = NoFile
    /\ UNCHANGED <<fs, tracked_files, inotify, last, dvars>>

TrackedFilesGarble ==
    /\ tracked_files_path.exists
    /\ tracked_files_path.intact
    /\ tracked_files_path' = Garbled
    /\ UNCHANGED <<fs, tracked_files, inotify, last, dvars>>

Next ==
    \/ TrackerInit
    \/ \E path \in Paths, url \in Urls : TrackerAddPath(path, url)
    \/ \E path \in Paths : TrackerRemovePath(path)
    \/ \E path \in Paths : FsDelete(path)
    \/ \E path \in Paths : FsCreate(path)
    \/ TrackedFilesLock
    \/ TrackedFilesRemove
    \/ TrackedFilesGarble

Spec == Init /\ [][Next]_vars

----------------------------------------------------------------------------
(* SpecDaemon: the client (bin/rgdrive.rs).                                *)

\* ClientUDSocketMessage::send(), or UnixStream::connect alone: the
\* connection waits in the backlog of the daemon's socket with the bytes
\* written to it.
CanConnect ==
    /\ daemon = "running"
    /\ Len(conns) + (IF handler.pc = "accept" THEN 0 ELSE 1) < MaxConns

Connect(text) ==
    /\ CanConnect
    /\ conns' = Append(conns, text)

ClientFrame == <<fs, tvars, daemon, map, notify, events, config, handler,
                 listener, drive_lock, tf_lock>>

\* daemon_is_active(): a connection that is closed without a byte written.
\* main() makes it before every command but --stop.
ClientIsActive ==
    /\ Connect(<<>>)
    /\ Silent
    /\ UNCHANGED ClientFrame

\* rgdrive --stop: handle_stop().
ClientStop ==
    /\ Connect(W_quit)
    /\ Silent
    /\ UNCHANGED ClientFrame

\* rgdrive --msg m.
ClientMsg(m) ==
    /\ Connect(Join(<<W_msg, m>>))
    /\ Silent
    /\ UNCHANGED ClientFrame

\* Some other process writes bytes to the socket that are no text.
ClientRaw ==
    /\ Connect(<<BadByte>>)
    /\ Silent
    /\ UNCHANGED ClientFrame

\* rgdrive --push path.
ClientPush(path) ==
    /\ handle_push(path).sent
    /\ Connect(handle_push(path).text)
    /\ Silent
    /\ UNCHANGED ClientFrame

\* rgdrive --pull url dest [--overwrite]: handle_pull sends the command or
\* reports an error.
ClientPull(url, dest, overwrite) ==
    /\ CanConnect
    /\ LET r == handle_pull(url, dest, overwrite)
       IN  /\ IF r.sent THEN Connect(r.text) ELSE UNCHANGED conns
           /\ cli' = r.err
    /\ UNCHANGED ClientFrame

\* rgdrive --sync path url.
ClientSync(path, url) ==
    /\ handle_sync(path, url).sent
    /\ Connect(handle_sync(path, url).text)
    /\ Silent
    /\ UNCHANGED ClientFrame

\* rgdrive --unsync path.
ClientUnsync(path) ==
    /\ handle_unsync(path).sent
    /\ Connect(handle_unsync(path).text)
    /\ Silent
    /\ UNCHANGED ClientFrame

\* The connections that may wait in the backlog of the socket while
\* handle_stream is busy.
Backlog == 2

\* ClientUDSocketMessage::send() while the daemon handles another command:
\* connect() succeeds and the connection waits in the backlog.
ClientQueue(text) ==
    /\ daemon = "running"
    /\ Len(conns) < Backlog
    /\ conns' = Append(conns, text)
    /\ Silent
    /\ UNCHANGED ClientFrame

\* Some other process connects and neither writes nor closes.
ClientStall ==
    /\ daemon = "running"
    /\ Len(conns) < Backlog
    /\ conns' = Append(conns, Stalled)
    /\ Silent
    /\ UNCHANGED ClientFrame

----------------------------------------------------------------------------
(* SpecDaemon: the command thread (rgdrived.rs main and handle_stream).    *)

\* The process ends (process::exit, or a panic of the main thread): its
\* memory, its inotify instance and its socket go with it.  h is what is
\* left to tell of the command thread.
Exit(h) ==
    /\ daemon' = "exited"
    /\ map' = <<>>
    /\ notify' = NewInotify
    /\ events' = <<>>
    /\ conns' = <<>>
    /\ handler' = h
    /\ listener' = Polling
    /\ drive_lock' = "free"
    /\ tf_lock' = "free"
    /\ Silent
    /\ UNCHANGED <<fs, tvars, config>>

\* rgdrived starts: main() up to the accept loop, or to the panic of
\* TrackedFiles::from_config.
DaemonStart ==
    /\ daemon = "exited"
    /\ \E order \in Orders(StoredStrings(config)) :
          LET r == from_config(config, order)
          IN  IF r.panicked
              THEN /\ handler' = [Idle EXCEPT !.pc = "panicked"]
                   /\ UNCHANGED <<daemon, map, notify, config>>
              ELSE /\ daemon' = "running"
                   /\ map' = r.map
                   /\ notify' = r.ino
                   /\ config' = r.file
                   /\ handler' = Idle
    /\ Silent
    /\ UNCHANGED <<fs, tvars, events, conns, listener, drive_lock, tf_lock>>

\* main() that takes the next connection whatever handle_stream is doing.
AcceptReady_overlapping(h) == TRUE

\* `for stream in listener.incoming()` calls handle_stream in the loop body:
\* the next connection is taken when the call has returned.
AcceptReady(h) == h.pc = "accept"

\* listener.incoming() yields a connection; handle_stream reads it to the end
\* and returns at once when nothing was written.
HAccept ==
    /\ daemon = "running"
    /\ AcceptReady(handler)
    /\ conns # <<>>
    /\ Head(conns) # Stalled
    /\ LET r == get_stream_text(Head(conns))
       IN  IF r.panicked
           THEN Exit([Idle EXCEPT !.pc = "panicked"])
           ELSE /\ conns' = Tail(conns)
                /\ handler' = IF IsEmptyText(r.text)
                              THEN [Idle EXCEPT !.pc = "return"]
                              ELSE [Idle EXCEPT !.pc = "lock_drive",
                                                !.cmd = Split(r.text, ">")]
                /\ Silent
                /\ UNCHANGED <<fs, tvars, daemon, map, notify, events, config,
                               listener, drive_lock, tf_lock>>

\* drive.lock().unwrap(), then `match cmd[0]`.
HLockDrive ==
    /\ daemon = "running"
    /\ handler.pc = "lock_drive"
    /\ drive_lock = "free"
    /\ LET cmd == handler.cmd
           arm == Arm(cmd)
       IN  IF arm = "quit"
           THEN Exit([handler EXCEPT !.pc = "exited"])
           ELSE /\ drive_lock' = "handler"
                /\ handler' =
                     CASE arm = "push" /\ IsDir(cmd[2]) ->
                            [handler EXCEPT !.pc = "push_dir", !.dir = TRUE,
                                            !.todo = ReadDir(cmd[2]),
                                            !.n = Cardinality(ReadDir(cmd[2]))]
                       [] arm = "push" /\ ~IsDir(cmd[2]) ->
                            [handler EXCEPT !.pc = "push_file", !.path = cmd[2]]
                       [] arm = "pull" -> [handler EXCEPT !.pc = "pull"]
                       [] arm = "sync" ->
                            [handler EXCEPT !.pc = "add", !.path = cmd[2],
                                            !.url = cmd[3]]
                       [] arm = "unsync" -> [handler EXCEPT !.pc = "unsync"]
                       [] OTHER -> [handler EXCEPT !.pc = "return"]
                /\ Silent
                /\ UNCHANGED <<fs, tvars, daemon, map, notify, events, config,
                               conns, listener, tf_lock>>

\* drive.upload_file(path): the url of the new remote file, or an error; a
\* file that is gone cannot be uploaded.
UploadResults(path) ==
    {[ok |-> FALSE, url |-> <<>>]} \cup
    (IF path \in fs THEN {[ok |-> TRUE, url |-> u] : u \in Urls} ELSE {})

\* One turn of `for f in upload_path.read_dir()`: the upload of an entry.
HPushDir ==
    /\ daemon = "running"
    /\ handler.pc = "push_dir"
    /\ IF handler.todo = {}
       THEN handler' = [handler EXCEPT !.pc = "return", !.call = [op |-> "none"]]
       ELSE \E f \in handler.todo : \E r \in UploadResults(f) :
              handler' =
                IF r.ok
                THEN [handler EXCEPT !.pc = "push_dir_add", !.path = f,
                                     !.url = r.url, !.todo = @ \ {f},
                                     !.done = @ \cup {<<f, r.url>>},
                                     !.remote = @ + 1,
                                     !.call = [op |-> "none"]]
                ELSE [handler EXCEPT !.todo = @ \ {f}, !.failed = @ + 1,
                                     !.remote = @ + 1,
                                     !.call = [op |-> "none"]]
    /\ Silent
    /\ UNCHANGED <<fs, tvars, daemon, map, notify, events, config, conns,
                   listener, drive_lock, tf_lock>>

\* The upload of a single file.
HPushFile ==
    /\ daemon = "running"
    /\ handler.pc = "push_file"
    /\ \E r \in UploadResults(handler.path) :
          handler' =
            IF r.ok
            THEN [handler EXCEPT !.pc = "add", !.url = r.url,
                                 !.done = {<<handler.path, r.url>>},
                                 !.remote = @ + 1]
            ELSE [handler EXCEPT !.pc = "return", !.failed = 1, !.remote = @ + 1]
    /\ Silent
    /\ UNCHANGED <<fs, tvars, daemon, map, notify, events, config, conns,
                   listener, drive_lock, tf_lock>>

\* drive.download_file(url, dest): the path written, or an error.  A
\* destination that is a directory receives the file under its remote name.
DownloadResults(dest) ==
    {[ok |-> FALSE, path |-> <<>>]} \cup
    (IF IsDir(dest) THEN {[ok |-> TRUE, path |-> p] : p \in Paths}
     ELSE IF dest \in Paths THEN {[ok |-> TRUE, path |-> dest]}
     ELSE {})

HPull ==
    /\ daemon = "running"
    /\ handler.pc = "pull"
    /\ \E r \in DownloadResults(handler.cmd[3]) :
          IF r.ok
          THEN /\ fs' = fs \cup {r.path}
               /\ handler' = [handler EXCEPT !.pc = "add", !.path = r.path,
                                             !.url = handler.cmd[2],
                                             !.remote = @ + 1]
          ELSE /\ fs' = fs
               /\ handler' = [handler EXCEPT !.pc = "return", !.remote = @ + 1]
    /\ Silent
    /\ UNCHANGED <<tvars, daemon, map, notify, events, config, conns,
                   listener, drive_lock, tf_lock>>

\* tracked_files.lock().unwrap().add_path(notify, path, url).  call keeps
\* whether the map held an entry for the path before, and whether a new
\* descriptor was issued.
HAdd ==
    /\ daemon = "running"
    /\ handler.pc \in {"add", "push_dir_add"}
    /\ tf_lock = "free"
    /\ NeedsFreshWd(notify, handler.path) => notify.next <= MaxWd
    /\ LET r == TrackedFiles_add_path(map, notify, config, handler.path, handler.url)
       IN  IF r.panicked
           THEN Exit([handler EXCEPT !.pc = "panicked"])
           ELSE /\ map' = r.map
                /\ notify' = r.ino
                /\ config' = r.file
                /\ handler' =
                     [handler EXCEPT
                         !.pc = IF handler.pc = "add" THEN "return" ELSE "push_dir",
                         !.call = [op |-> "add_path",
                                   tracked |-> EntriesFor(map, handler.path) # {},
                                   grew |-> r.ino.next # notify.next,
                                   ret |-> r.ret]]
                /\ Silent
                /\ UNCHANGED <<fs, tvars, daemon, events, conns, listener,
                               drive_lock, tf_lock>>

\* tracked_files.lock().unwrap().remove_path(notify, cmd[1]).  call keeps the
\* descriptors of the entries the map held for the path.
HUnsync ==
    /\ daemon = "running"
    /\ handler.pc = "unsync"
    /\ tf_lock = "free"
    /\ LET path == handler.cmd[2]
           r    == TrackedFiles_remove_path(map, notify, config, path)
       IN  IF r.panicked
           THEN Exit([handler EXCEPT !.pc = "panicked"])
           ELSE /\ map' = r.map
                /\ notify' = r.ino
                /\ config' = r.file
                /\ events' = EnqueueIgnored(events, DOMAIN map \ DOMAIN r.map)
                /\ handler' = [handler EXCEPT
                                  !.pc = "return", !.path = path,
                                  !.call = [op |-> "remove_path",
                                            wds |-> EntriesFor(map, path)]]
                /\ Silent
                /\ UNCHANGED <<fs, tvars, daemon, conns, listener, drive_lock,
                               tf_lock>>

\* handle_stream returns: the guard of the drive, if taken, and the stream
\* are dropped, and main() goes back to listener.incoming().
HReturn ==
    /\ daemon = "running"
    /\ handler.pc = "return"
    /\ drive_lock' = "free"
    /\ handler' = Idle
    /\ Silent
    /\ UNCHANGED <<fs, tvars, daemon, map, notify, events, config, conns,
                   listener, tf_lock>>

----------------------------------------------------------------------------
(* SpecDaemon: the watch thread (rgdrived.rs inotify_listen).              *)

\* notify.lock().unwrap().read_events(&mut buffer): the queued events.
LPoll ==
    /\ daemon = "running"
    /\ listener.pc = "poll"
    /\ events # <<>>
    /\ listener' = [listener EXCEPT !.pc = "event", !.batch = events]
    /\ events' = <<>>
    /\ Silent
    /\ UNCHANGED <<fs, tvars, daemon, map, notify, config, conns, handler,
                   drive_lock, tf_lock>>

\* `match event.mask`: for MODIFY the entry of event.wd is looked up under
\* the lock of tracked_files, which is kept when an entry is found.
LEvent ==
    /\ daemon = "running"
    /\ listener.pc = "event"
    /\ LET ev == Head(listener.batch)
       IN  IF ev.mask # "MODIFY"
           THEN /\ listener' = [listener EXCEPT !.pc = "next"]
                /\ map' = on_event(map, ev)
                /\ UNCHANGED tf_lock
           ELSE /\ tf_lock = "free"
                /\ UNCHANGED map
                /\ IF ev.wd \in DOMAIN map
                   THEN /\ listener' = [listener EXCEPT !.pc = "update",
                                                        !.found = TRUE,
                                                        !.entry = map[ev.wd]]
                        /\ tf_lock' = "listener"
                   ELSE /\ listener' = [listener EXCEPT !.pc = "next"]
                        /\ UNCHANGED tf_lock
    /\ Silent
    /\ UNCHANGED <<fs, tvars, daemon, notify, events, config, conns,
                   handler, drive_lock>>

\* drive.lock().unwrap().update_file(PathBuf::from(path[0]), path[1]) with
\* path = entry.split(","); the call returns Ok or Err, which is logged; then
\* both guards are dropped.
LUpdate ==
    /\ daemon = "running"
    /\ listener.pc = "update"
    /\ drive_lock = "free"
    /\ \E ok \in BOOLEAN :
          LET path == Split(listener.entry, ",")
              wd   == Head(listener.batch).wd
              call == <<path[1], path[2]>>
          IN  /\ listener' =
                    [listener EXCEPT
                        !.pc = "next",
                        !.calls = Append(@, call),
                        !.failed = ~ok]
              /\ map' = on_update_result(map, wd, ok)
    /\ tf_lock' = "free"
    /\ Silent
    /\ UNCHANGED <<fs, tvars, daemon, notify, events, config, conns,
                   handler, drive_lock>>

\* The turn of `for event in events` ends; after the last event the thread
\* sleeps and polls again.
LNext ==
    /\ daemon = "running"
    /\ listener.pc = "next"
    /\ listener' = [Polling EXCEPT
                       !.pc = IF Len(listener.batch) > 1 THEN "event" ELSE "poll",
                       !.batch = Tail(listener.batch)]
    /\ Silent
    /\ UNCHANGED <<fs, tvars, daemon, map, notify, events, config, conns,
                   handler, drive_lock, tf_lock>>

----------------------------------------------------------------------------
(* SpecDaemon.                                                             *)

\* The environment takes the permissions of the daemon's config file away,
\* deletes it, or leaves bytes in it that do not parse.
ConfigFrame == <<fs, tvars, daemon, map, notify, events, conns, handler,
                 listener, drive_lock, tf_lock>>

ConfigLock ==
    /\ config.exists
    /\ config.open
    /\ config' = Locked
    /\ Silent
    /\ UNCHANGED ConfigFrame

ConfigRemove ==
    /\ config.exists
    /\ config' = NoFile
    /\ Silent
    /\ UNCHANGED ConfigFrame

ConfigGarble ==
    /\ config.exists
    /\ config.intact
    /\ config' = Garbled
    /\ Silent
    /\ UNCHANGED ConfigFrame

\* What a client may name: a file, or the directory.
Named == Paths \cup {Dir}

DNext ==
    \/ \E url \in {U_x, NotUrl}, dest \in Named, overwrite \in BOOLEAN :
          ClientPull(url, dest, overwrite)
    \/ \E path \in Named : ClientPush(path)
    \/ ClientIsActive
    \/ ClientStop
    \/ \E m \in {W_ping, W_hi} : ClientMsg(m)
    \/ ClientRaw
    \/ \E path \in Paths, url \in Urls : ClientSync(path, url)
    \/ \E path \in Named : ClientUnsync(path)
    \/ DaemonStart
    \/ HAccept
    \/ HLockDrive
    \/ HPushDir
    \/ HPushFile
    \/ HPull
    \/ HAdd
    \/ HUnsync
    \/ HReturn
    \/ LPoll
    \/ LEvent
    \/ LUpdate
    \/ LNext
    \/ \E path \in Paths : FsDelete(path)
    \/ \E path \in Paths : FsCreate(path)
    \/ \E path \in Paths : FsModify(path)
    \/ ConfigLock
    \/ ConfigRemove
    \/ ConfigGarble

SpecDaemon == Init /\ [][DNext]_vars

----------------------------------------------------------------------------
(* Properties of the registry (lib.rs, Tracker), checked under Spec.       *)

\* The (local_path, remote_id) pairs of a list of entries.
PairsOf(tfs) == {<<tfs[i].path, tfs[i].drive_url>> : i \in 1..Len(tfs)}

\* The pairs Tracker::init would load from the durable file as it is now.
Reloaded == PairsOf(init(tracked_files_path).tracked_files)

\* Every path stored in the durable file can be watched again.
AllRegistrable ==
    \A i \in 1..Len(tracked_files_path.data) : tracked_files_path.data[i][2] \in fs

\* Tracker::add_path on a tracked path returns Ok, leaves one entry for the
\* path and registers nothing (the part of C1 that lib.rs decides).
Tracker_IdempotentAdd ==
    (last.op = "add_path" /\ last.tracked)
        => /\ last.ok
           /\ last.wd = NoWd
           /\ Cardinality({i \in 1..Len(tracked_files) :
                               tracked_files[i].path = last.path}) = 1

\* Tracker.tracked_files never holds two entries with the same path (the
\* part of C2 that lib.rs decides).
Tracker_UniquePaths ==
    \A i, j \in 1..Len(tracked_files) :
        tracked_files[i].path = tracked_files[j].path => i = j

\* C3: removal round-trip.  When add_path(p, r) on an untracked path p is
\* followed by remove_path(p), the registry holds no entry for p and the
\* descriptor that add_path registered for p is not a live watch.
C3_RemovalRoundTrip ==
    (last.op = "remove_path" /\ last.after_add)
        => /\ ~IsTracked(tracked_files, last.path)
           /\ last.wd \notin DOMAIN inotify.watches

\* C3's case: add_path registered a watch for an untracked path and the
\* remove_path that followed returned Ok.
C3_Witness ==
    /\ last.op = "remove_path"
    /\ last.after_add
    /\ last.wd # NoWd
    /\ last.tracked
    /\ last.ok

\* C4: persistence round-trip.  After at least three add_path/remove_path
\* calls that returned Ok, loading the durable file (every stored path can be
\* watched) gives exactly the pairs held in memory.
C4_PersistenceRoundTrip ==
    (last.streak = 3 /\ AllRegistrable) => Reloaded = PairsOf(tracked_files)

\* C10: persist succeeds when the durable file already exists.  An add_path
\* of an untracked path whose watch was registered, made when the file was
\* already written, returns Ok and the file then holds the pairs in memory.
C10_PersistOverExistingFile ==
    (/\ last.op = "add_path"
     /\ ~last.tracked
     /\ last.wd # NoWd
     /\ last.had_file)
        => /\ last.ok
           /\ tracked_files_path.data = Serialize(tracked_files)

----------------------------------------------------------------------------
(* Properties of the daemon (rgdrived.rs, bin/rgdrive.rs), checked under   *)
(* SpecDaemon.                                                             *)

\* C1: idempotent add.  When add(p, r) is called for a path the registry
\* already holds, the registry is left with exactly one entry for p and no
\* additional watch is registered.
C1_IdempotentAdd ==
    (handler.call.op = "add_path" /\ handler.call.tracked)
        => /\ Cardinality(EntriesFor(map, handler.path)) = 1
           /\ ~handler.call.grew

\* C2: in every reachable state of the daemon the registry holds at most one
\* entry per local path.
C2_OneEntryPerPath ==
    \A p \in Paths : Cardinality(EntriesFor(map, p)) <= 1

\* TrackedFiles::remove_path(p) that returns leaves no entry for p, and the
\* descriptors of the entries it held for p are not live watches (the part of
\* C3 that rgdrived.rs decides).
TrackedFiles_RemovalRoundTrip ==
    handler.call.op = "remove_path"
        => /\ EntriesFor(map, handler.path) = {}
           /\ handler.call.wds \cap DOMAIN notify.watches = {}

\* C5: watch-triggered update.  When the watch loop has finished an event:
\* a modify event whose descriptor had a registry entry (p, id) caused exactly
\* the one call update(p, id); any other event caused no update call.
C5_WatchTriggeredUpdate ==
    listener.pc = "next"
        => IF Head(listener.batch).mask = "MODIFY" /\ listener.found
           THEN \E p \in Paths, id \in Urls :
                   /\ listener.entry = Entry(p, id)
                   /\ listener.calls = << <<p, id>> >>
           ELSE listener.calls = <<>>

\* C6: when the daemon has finished a Push, Pull, Sync, Unsync or Quit
\* command, exactly one Result (Ok or Err) was written on its connection.
C6_OneResultPerCommand ==
    (/\ handler.pc \in {"return", "exited"}
     /\ handler.cmd # <<>>
     /\ Arm(handler.cmd) # "other")
        => /\ Len(handler.sent) = 1
           /\ handler.sent[1].result \in {"Ok", "Err"}

\* C7: empty command tolerance.  The step that takes a connection on which
\* nothing was written (the bytes decode to None) changes neither the
\* registry nor the config file, calls the drive not at all, writes nothing
\* to the stream, takes no lock and leaves the daemon running; the step after
\* it brings the command thread back to listener.incoming().
C7_EmptyCommandTolerance ==
    [][/\ (/\ handler.pc = "accept"
           /\ conns # <<>>
           /\ Len(Head(conns)) = 0
           /\ handler' # handler)
          => /\ from_stream(Head(conns)) = DNone
             /\ handler'.pc = "return"
             /\ handler'.cmd = <<>>
             /\ handler'.remote = 0
             /\ handler'.sent = <<>>
             /\ UNCHANGED <<map, config, notify, drive_lock, tf_lock, daemon>>
       /\ (/\ handler.pc = "return"
           /\ handler.cmd = <<>>
           /\ handler' # handler)
          => /\ handler' = Idle
             /\ UNCHANGED <<map, config, notify, daemon>>
      ]_vars

\* C7's case: the command thread has taken a connection on which nothing was
\* written, and returns.
C7_Witness ==
    /\ daemon = "running"
    /\ handler.pc = "return"
    /\ handler.cmd = <<>>
    /\ drive_lock = "free"

\* A destination that Pull must refuse: an existing file without the
\* overwrite flag, or a path that is no file, has no extension and is no
\* directory.
Refused(dest, overwrite) ==
    \/ IsFile(dest) /\ ~overwrite
    \/ ~IsFile(dest) /\ ~HasExtension(dest) /\ ~IsDir(dest)

C9_PushOverDirectory ==
    (handler.pc = "return" /\ handler.dir)
        => /\ handler.n = Cardinality(handler.done) + handler.failed
           /\ handler.sent =
                << [result |-> IF handler.failed > 0 THEN "Err" ELSE "Ok",
                    successes |-> handler.n - handler.failed,
                    failures |-> handler.failed] >>
           /\ \A pair \in handler.done :
                 \E w \in DOMAIN map : map[w] = Entry(pair[1], pair[2])

----------------------------------------------------------------------------
(* Failures of registration, removal and loading.                          *)

\* Tracker::add_path whose add_watch fails returns Err and leaves the list,
\* the watches and the durable file as they were (the part of C11 that lib.rs
\* decides).
Tracker_AddRegistrationFailure ==
    [][\A path \in Paths, url \in Urls :
          (/\ TrackerAddPath(path, url)
           /\ ~IsTracked(tracked_files, path)
           /\ ~add_watch(inotify, path).ok)
             => /\ ~last'.ok
                /\ UNCHANGED <<tracked_files, inotify, tracked_files_path>>
      ]_vars

\* C11: when the watch registration fails inside add(p, r), add reports an
\* error to its caller, and the registry entries, the registered watches and
\* the durable file are unchanged.
C11_AddRegistrationFailure ==
    [][(HAdd /\ ~add_watch(notify, handler.path).ok)
          => /\ handler'.call.op = "add_path"
             /\ handler'.call.ret = "Err"
             /\ UNCHANGED <<map, notify, config>>
      ]_vars

\* Tracker::remove_path of a path without an entry returns Ok and leaves the
\* list and the watches as they were (the part of C12 that lib.rs decides).
Tracker_RemoveAbsent ==
    [][\A path \in Paths :
          (TrackerRemovePath(path) /\ ~IsTracked(tracked_files, path))
             => /\ last'.ok
                /\ UNCHANGED <<tracked_files, inotify>>
      ]_vars

\* C12: remove(p) on a registry that has no entry for p returns Ok and leaves
\* the registry entries and the registered watches unchanged (so that a second
\* remove(p) changes nothing after the first).
C12_RemoveAbsent ==
    [][(HUnsync /\ EntriesFor(map, handler.cmd[2]) = {})
          => /\ daemon' = "running"
             /\ handler'.pc = "return"
             /\ UNCHANGED <<map, notify>>
      ]_vars

\* C13: remove(p) removes exactly the entries whose local_path is p: every
\* other entry (also one whose path or remote id merely contains p) is still
\* in the registry afterwards, with its watch still registered.
C13_RemoveExactly ==
    [][HUnsync
          => \A w \in DOMAIN map \ EntriesFor(map, handler.cmd[2]) :
                /\ w \in DOMAIN map'
                /\ map'[w] = map[w]
                /\ w \in DOMAIN notify.watches => w \in DOMAIN notify'.watches
      ]_vars

\* The same for Tracker::remove_path.
Tracker_RemoveExactly ==
    [][\A path \in Paths :
          TrackerRemovePath(path)
             => \A i \in 1..Len(tracked_files) :
                   tracked_files[i].path # path
                      => \E j \in 1..Len(tracked_files') :
                            tracked_files'[j] = tracked_files[i]
      ]_vars

\* C14: after load() the registry holds exactly the stored (local_path,
\* remote_id) pairs whose path could be watched, and every loaded entry has a
\* live watch.
C14_LoadExactlyRegistered ==
    [][(DaemonStart /\ daemon' = "running")
          => /\ {map'[w] : w \in DOMAIN map'} =
                   {Entry(pair[1], pair[2]) :
                       pair \in {q \in Paths \X Urls :
                                    /\ Entry(q[1], q[2]) \in StoredStrings(config)
                                    /\ add_watch(NewInotify, q[1]).ok}}
             /\ DOMAIN map' \subseteq DOMAIN notify'.watches
      ]_vars

\* The same for Tracker::init.
Tracker_LoadExactlyRegistered ==
    [][TrackerInit
          => /\ PairsOf(tracked_files') =
                   IF tracked_files_path.exists /\ tracked_files_path.open
                      /\ tracked_files_path.intact
                   THEN {<<pair[2], pair[1]>> :
                            pair \in {tracked_files_path.data[i] :
                                         i \in {k \in 1..Len(tracked_files_path.data) :
                                                   tracked_files_path.data[k][2] \in fs}}}
                   ELSE {}
             /\ \A i \in 1..Len(tracked_files') :
                   tracked_files'[i].wd \in DOMAIN inotify'.watches
      ]_vars

\* C15: load() never fails hard: on a durable file that is missing, cannot be
\* read or does not deserialize, it completes with an empty registry and the
\* daemon goes on to start.
C15_LoadNeverFailsHard ==
    [][(DaemonStart /\ (~config.exists \/ ~config.open \/ ~config.intact))
          => /\ daemon' = "running"
             /\ handler' = Idle
             /\ map' = <<>>
      ]_vars

\* The same for Tracker::init.
Tracker_LoadNeverFailsHard ==
    [][(/\ TrackerInit
        /\ \/ ~tracked_files_path.exists
           \/ ~tracked_files_path.open
           \/ ~tracked_files_path.intact)
          => tracked_files' = <<>>
      ]_vars

----------------------------------------------------------------------------
(* Messages, Quit, and requests that do not decode.                        *)

\* C16: when the daemon has finished a Message command, it has answered
\* Ok("pong") if the text holds the ping marker; otherwise it has written no
\* response, made no call to the registry and none to the drive.
C16_MessagePing ==
    (/\ handler.pc = "return"
     /\ handler.cmd # <<>>
     /\ handler.cmd[1] = W_msg)
        => IF Contains(handler.cmd[2], W_ping)
           THEN handler.sent = << [result |-> "Ok", text |-> "pong"] >>
           ELSE /\ handler.sent = <<>>
                /\ handler.call.op = "none"
                /\ handler.remote = 0

\* C17: on Quit the daemon has written an Ok response when it terminates, and
\* after termination no command is executed and the watch loop makes no
\* update.
C17_QuitRespondsThenTerminates ==
    /\ handler.pc = "exited" => handler.sent = << [result |-> "Ok"] >>
    /\ daemon = "exited"
          => /\ handler.pc \in {"exited", "panicked"}
             /\ listener = Polling
             /\ conns = <<>>

\* C18: a request whose bytes cannot be decoded ends only its connection:
\* the daemon keeps running, registry and watches are unchanged, the watch
\* loop is where it was, and the command thread returns to accept the next
\* connection.
C18_UndecodableRequest ==
    [][(HAccept /\ get_stream_text(Head(conns)).panicked)
          => /\ daemon' = "running"
             /\ handler'.pc = "return"
             /\ UNCHANGED <<map, notify, config, listener>>
      ]_vars

\* Tracker::add_path whose save fails keeps the new entry and its watch in
\* memory (the part of C19 that lib.rs decides).
Tracker_PersistenceFailure ==
    [][\A path \in Paths, url \in Urls :
          (/\ TrackerAddPath(path, url)
           /\ ~IsTracked(tracked_files, path)
           /\ add_watch(inotify, path).ok
           /\ tracked_files_path.exists)
             => /\ ~last'.ok
                /\ tracked_files' =
                      Append(tracked_files,
                             TrackedFile(url, path, add_watch(inotify, path).wd))
                /\ last'.wd \in DOMAIN inotify'.watches
      ]_vars

\* C19: a failure to write the durable file during add or remove does not
\* end the daemon: the registry in memory holds what the operation made of
\* it, and the command thread returns to serve the next command.
C19_PersistenceFailure ==
    [][/\ (/\ HAdd
           /\ add_watch(notify, handler.path).ok
           /\ config.exists /\ ~config.open)
          => /\ daemon' = "running"
             /\ map' = Put(map, add_watch(notify, handler.path).wd,
                           Entry(handler.path, handler.url))
       /\ (/\ HUnsync
           /\ \A w \in DOMAIN map :
                 Contains(map[w], handler.cmd[2]) => rm_watch(notify, w).ok
           /\ config.exists /\ ~config.open)
          => /\ daemon' = "running"
             /\ \A w \in DOMAIN map' : ~Contains(map'[w], handler.cmd[2])
      ]_vars

----------------------------------------------------------------------------
(* The wire.                                                               *)

\* The commands of the model.
Commands ==
    {DPull(u, p, o) : u \in Urls, p \in Named, o \in BOOLEAN}
    \cup {DPush(p) : p \in Named}
    \cup {DFSync(p, u) : p \in Paths, u \in Urls}
    \cup {DFUnSync(p) : p \in Named}
    \cup {DMessage(m) : m \in {W_ping, W_hi, <<>>}}
    \cup {DNone, DOk, DQuit}

\* The bincode form of DCommand round-trips, the overwrite flag and fields
\* that hold "," or ">" included (the part of C20 that lib.rs decides).
DCommand_RoundTrip ==
    \A c \in Commands : from_stream(serialize(c)) = c

\* What the daemon decodes from the connection a client has just written.
Received == Decoded(Split(get_stream_text(conns'[Len(conns')]).text, ">"))

\* C20: wire round-trip.  The command the daemon decodes from what a client
\* wrote is the command the client sent, variant and fields: Pull with its
\* overwrite flag, Push, Sync, Unsync, Message and Quit.
C20_WireRoundTrip ==
    [][/\ \A dest \in Named, overwrite \in BOOLEAN :
             (ClientPull(U_x, dest, overwrite) /\ cli' = "sent")
                => Received = DPull(U_x, dest, overwrite)
       /\ \A path \in Named : ClientPush(path) => Received = DPush(path)
       /\ \A path \in Paths, url \in Urls :
             ClientSync(path, url) => Received = DFSync(path, url)
       /\ \A path \in Named : ClientUnsync(path) => Received = DFUnSync(path)
       /\ \A m \in {W_ping, W_hi} : ClientMsg(m) => Received = DMessage(m)
       /\ ClientStop => Received = DQuit
      ]_vars

----------------------------------------------------------------------------
(* The two threads and their locks.                                        *)

\* C21: deadlock freedom.  There is no reachable state in which the command
\* thread holds the lock of the drive and waits for the lock of tracked_files
\* while the watch thread holds the lock of tracked_files and waits for the
\* lock of the drive.
C21_DeadlockFreedom ==
    ~(/\ daemon = "running"
      /\ handler.pc \in {"add", "push_dir_add", "unsync"}
      /\ drive_lock = "handler"
      /\ listener.pc = "update"
      /\ tf_lock = "listener")

\* SpecWatch: the daemon with clients that sync files and an environment that
\* writes to them, both threads scheduled fairly.
WNext ==
    \/ \E path \in Paths, url \in Urls : ClientSync(path, url)
    \/ HAccept
    \/ HLockDrive
    \/ HAdd
    \/ HReturn
    \/ LPoll
    \/ LEvent
    \/ LUpdate
    \/ LNext
    \/ \E path \in Paths : FsModify(path)

SpecWatch ==
    /\ Init
    /\ [][WNext]_vars
    /\ WF_vars(HAccept)
    /\ WF_vars(HLockDrive)
    /\ WF_vars(HAdd)
    /\ WF_vars(HReturn)
    /\ WF_vars(LPoll)
    /\ WF_vars(LEvent)
    /\ WF_vars(LUpdate)
    /\ WF_vars(LNext)

\* A modify event for descriptor w is queued or in the hands of the watch
\* thread.
Fired(w) ==
    \/ \E i \in 1..Len(events) : events[i] = [wd |-> w, mask |-> "MODIFY"]
    \/ /\ listener.pc \in {"event", "update"}
       /\ Head(listener.batch) = [wd |-> w, mask |-> "MODIFY"]

\* The watch thread has made the update call for the pair bound to w.
Updated(w) ==
    /\ listener.pc = "next"
    /\ Head(listener.batch).wd = w
    /\ \E p \in Paths, id \in Urls :
          /\ map[w] = Entry(p, id)
          /\ listener.calls = << <<p, id>> >>

\* C22: no lost events.  Under fair scheduling of both threads, a modify
\* event fired for the descriptor of a tracked path is eventually followed by
\* the update call for that path with its remote id, unless the path stops
\* being tracked.
C22_NoLostEvents ==
    \A w \in 1..MaxWd :
        (w \in DOMAIN map /\ Fired(w)) ~> (w \notin DOMAIN map \/ Updated(w))

\* C23: lock scoping.  The lock of tracked_files is not held while an
\* update_file, upload_file or download_file call is made, and the lock of
\* the drive is not held by a Sync or Unsync command.
C23_LockScoping ==
    [][/\ LUpdate => tf_lock # "listener"
       /\ (HPushFile \/ HPushDir \/ HPull) => tf_lock # "handler"
       /\ (drive_lock' = "handler" /\ handler'.cmd # <<>>)
             => Arm(handler'.cmd) \notin {"sync", "unsync"}
      ]_vars

----------------------------------------------------------------------------
(* The watch loop.                                                         *)

\* C24: a failed update leaves the tracking as it was.  The update_file call
\* that returns Err changes neither the map nor the watches nor the config
\* file, and the entry of the event's descriptor is still there; whatever
\* came before, a modify event on a descriptor that has an entry leads to
\* one update_file call with the fields of that entry.
C24_FailedUpdateKeepsTracking ==
    [][/\ (LUpdate /\ listener'.failed)
             => /\ UNCHANGED <<map, notify, config>>
                /\ Head(listener.batch).wd \in DOMAIN map'
                /\ map'[Head(listener.batch).wd] = listener.entry
       /\ (/\ LEvent
           /\ Head(listener.batch).mask = "MODIFY"
           /\ Head(listener.batch).wd \in DOMAIN map)
             => /\ listener'.pc = "update"
                /\ listener'.entry = map[Head(listener.batch).wd]
       /\ LUpdate
             => /\ Len(listener'.calls) = 1
                /\ listener'.calls[1] = SubSeq(Split(listener.entry, ","), 1, 2)
      ]_vars

\* C24's case: the update_file call for a modify event has returned Err, and
\* the entry and its watch are still there.
C24_Witness ==
    /\ listener.pc = "next"
    /\ listener.failed
    /\ Head(listener.batch).wd \in DOMAIN map
    /\ Head(listener.batch).wd \in DOMAIN notify.watches

\* C25: an event for a watched file that was deleted or moved leaves the map
\* and the config file unchanged and causes no call to the drive; while the
\* daemon runs, an entry leaves the map only by an unsync command.
C25_DeleteEventKeepsEntry ==
    [][/\ (LEvent /\ Head(listener.batch).mask # "MODIFY")
             => /\ UNCHANGED <<map, config, notify>>
                /\ listener'.pc = "next"
                /\ listener'.calls = <<>>
       /\ (/\ daemon = "running"
           /\ daemon' = "running"
           /\ ~(DOMAIN map \subseteq DOMAIN map'))
             => handler.pc = "unsync"
      ]_vars

\* C25's case: the watch thread has processed the event of a deleted file
\* whose entry is in the map.
C25_Witness ==
    /\ listener.pc = "next"
    /\ Head(listener.batch).mask = "IGNORED"
    /\ Head(listener.batch).wd \in DOMAIN map
    /\ listener.calls = <<>>

----------------------------------------------------------------------------
(* Errors of the registry and the results of push and pull.                *)

\* C26: when releasing a watch fails during remove(p), the error is reported
\* to the caller and the daemon keeps running: the command thread returns to
\* serve the next command, and every entry whose path differs from p is still
\* in the registry with its remote id and handle unchanged.
C26_ReleaseFailure ==
    [][(/\ HUnsync
        /\ \E w \in DOMAIN map :
              Contains(map[w], handler.cmd[2]) /\ ~rm_watch(notify, w).ok)
          => /\ daemon' = "running"
             /\ handler'.pc = "return"
             /\ \A w \in DOMAIN map :
                   ~Contains(map[w], handler.cmd[2])
                      => w \in DOMAIN map' /\ map'[w] = map[w]
      ]_vars

\* Tracker::add_path of a path that is already tracked changes neither the
\* list nor the durable file nor the watches (the part of C27 that lib.rs
\* decides).
Tracker_RebindKeepsFirst ==
    [][\A path \in Paths, url \in Urls :
          (TrackerAddPath(path, url) /\ IsTracked(tracked_files, path))
             => /\ last'.ok
                /\ UNCHANGED <<tracked_files, tracked_files_path, inotify>>
      ]_vars

\* C27: add(p, r2) on a registry that already binds p to r1 leaves the
\* binding (p, r1): the entries the map holds for p and the config file are
\* what they were.
C27_RebindKeepsFirst ==
    [][(HAdd /\ EntriesFor(map, handler.path) # {})
          => /\ \A w \in EntriesFor(map, handler.path) :
                   w \in DOMAIN map' /\ map'[w] = map[w]
             /\ config' = config
      ]_vars

\* C28: push of a single file.  An upload that fails ends the command with
\* one Err written and registry and config file unchanged; the add_path of a
\* push is made only after the upload returned a url i, binds the path to i
\* and ends the command with one Ok that carries i.
C28_PushSingleFile ==
    [][/\ HPushFile
          => /\ UNCHANGED <<map, config, notify>>
             /\ handler'.pc = "return"
                   => handler'.sent = << [result |-> "Err"] >>
       /\ (HAdd /\ Arm(handler.cmd) = "push" /\ ~handler.dir)
          => /\ handler.done = {<<handler.path, handler.url>>}
             /\ \E w \in DOMAIN map' :
                   map'[w] = Entry(handler.path, handler.url)
             /\ handler'.sent = << [result |-> "Ok", url |-> handler.url] >>
      ]_vars

\* C29: a push of a path that does not exist writes one Err to the client,
\* makes no upload call and leaves the registry unchanged.
C29_PushMissingPath ==
    [][(HPushFile /\ ~Exists(handler.path))
          => /\ handler'.remote = handler.remote
             /\ handler'.sent = << [result |-> "Err"] >>
             /\ UNCHANGED <<map, config, notify>>
      ]_vars

\* C30: pull with a valid destination.  A download that fails ends the
\* command with one Err written and the registry unchanged; a download that
\* returns the local path q is followed by the add_path that binds q to the
\* requested url, and the command ends with one Ok written.
C30_PullRegistersReturnedPath ==
    [][/\ HPull
          => /\ UNCHANGED <<map, config, notify>>
             /\ IF handler'.pc = "return"
                THEN handler'.sent = << [result |-> "Err"] >>
                ELSE /\ handler'.pc = "add"
                     /\ handler'.path \in fs'
                     /\ handler'.url = handler.cmd[2]
       /\ (HAdd /\ Arm(handler.cmd) = "pull")
          => /\ \E w \in DOMAIN map' :
                   map'[w] = Entry(handler.path, handler.cmd[2])
             /\ handler'.sent = << [result |-> "Ok"] >>
      ]_vars

----------------------------------------------------------------------------
(* Sync and unsync, the accept loop, stalled clients.                      *)

\* C31: a Sync command is answered Ok exactly when the add of the registry
\* succeeded and Err when the watch could not be registered; an Unsync
\* command is answered Ok exactly when the remove succeeded and Err
\* otherwise.
C31_SyncUnsyncResult ==
    [][/\ (HAdd /\ Arm(handler.cmd) = "sync")
          => handler'.sent =
                << [result |-> IF add_watch(notify, handler.path).ok
                               THEN "Ok" ELSE "Err"] >>
       /\ HUnsync
          => handler'.sent =
                << [result |->
                      IF TrackedFiles_remove_path(map, notify, config,
                                                  handler.cmd[2]).panicked
                      THEN "Err" ELSE "Ok"] >>
      ]_vars

\* The accept loop alone: clients queue sync commands and empty connections,
\* some process stalls, and the command thread serves them.  The command
\* thread is scheduled whenever it can take a step.
ANext ==
    \/ \E text \in {<<>>} \cup {Join(<<W_sync, F_at, url>>) : url \in Urls} :
          ClientQueue(text)
    \/ ClientStall
    \/ HAccept
    \/ HLockDrive
    \/ HAdd
    \/ HReturn

SpecAccept ==
    /\ Init
    /\ [][ANext]_vars
    /\ WF_vars(HAccept)
    /\ WF_vars(HLockDrive)
    /\ WF_vars(HAdd)
    /\ WF_vars(HReturn)

\* C32: the accept loop handles connections strictly one at a time.  A
\* connection leaves the backlog only when the command thread is back in
\* listener.incoming() with the command before it finished, it is the
\* connection at the head, and it is the one the thread then works on; while
\* a command is being handled the connections that wait stay where they are.
C32_OneConnectionAtATime ==
    [][/\ (daemon' = "running" /\ conns # <<>> /\ conns' = Tail(conns))
          => /\ handler = Idle
             /\ handler'.pc \in {"lock_drive", "return"}
             /\ handler'.pc = "lock_drive"
                   => handler'.cmd = Split(Head(conns), ">")
       /\ (daemon' = "running" /\ handler # Idle)
          => \E more \in {<<>>} \cup {<<c>> : c \in {conns'[i] : i \in 1..Len(conns')}} :
                conns' = conns \o more
      ]_vars

\* C32's case: a command is being handled while the next connection waits.
C32_Witness ==
    /\ daemon = "running"
    /\ handler.pc = "add"
    /\ conns # <<>>
    /\ Head(conns) # Stalled

\* C33: a client that connects and never closes its write side does not
\* block the daemon for ever: its connection is dropped after a bounded time
\* and the connections behind it are served.
C33_StalledClientTimesOut ==
    (conns # <<>> /\ Head(conns) = Stalled)
        ~> (conns = <<>> \/ Head(conns) # Stalled)

----------------------------------------------------------------------------
(* Watch handles.                                                          *)

\* C34: watch handles are never persisted and never carried across a
\* restart.  The durable file holds (remote id, local path) pairs only; every
\* handle in the list was issued by the inotify instance of the running
\* session, and a handle that is a live watch is the watch of its entry's
\* path.
C34_HandlesNotPersisted ==
    /\ (tracked_files_path.exists /\ tracked_files_path.open
           /\ tracked_files_path.intact)
          => \A i \in 1..Len(tracked_files_path.data) :
                /\ Len(tracked_files_path.data[i]) = 2
                /\ tracked_files_path.data[i][1] \in Urls
                /\ tracked_files_path.data[i][2] \in Paths
    /\ \A i \in 1..Len(tracked_files) :
          /\ tracked_files[i].wd \in 1..(inotify.next - 1)
          /\ tracked_files[i].wd \in DOMAIN inotify.watches
                => inotify.watches[tracked_files[i].wd] = tracked_files[i].path

\* C34's case: the process has started again and Tracker::init has loaded
\* entries from the durable file.
C34_Witness ==
    /\ last.op = "init"
    /\ tracked_files # <<>>
    /\ tracked_files_path.exists
    /\ tracked_files_path.intact

\* C35: watch/registry consistency.  Between the operations of the registry
\* the watches of the watch subsystem are the handles of the registry's
\* entries: no watch without an entry, no entry whose handle is not a watch.
C35_WatchRegistryConsistency ==
    daemon = "running" => DOMAIN notify.watches = DOMAIN map

\* The same for the Tracker of lib.rs (the part of C35 that lib.rs decides).
Tracker_WatchRegistryConsistency ==
    DOMAIN inotify.watches
        = {tracked_files[i].wd : i \in 1..Len(tracked_files)}

\* C36: raced removal.  An unsync of p that completes leaves no entry for p
\* in the map or in the config file and finds the watch loop outside an
\* update call; an entry appears in the map only by an add_path or by the
\* load of the stored strings at start, and a string appears in the config
\* file only when the map holds it; the watch loop is in or before an
\* update call only for the entry the map holds for the event's descriptor,
\* and calls update_file with the fields of that entry; a modify event whose
\* descriptor has no entry is skipped without a call and the loop goes on.
C36_RacedRemoval ==
    [][/\ (HUnsync /\ daemon' = "running")
          => /\ \A w \in DOMAIN map' : ~Contains(map'[w], handler.cmd[2])
             /\ \A str \in StoredStrings(config') : ~Contains(str, handler.cmd[2])
             /\ listener'.pc # "update"
       /\ (\E w \in DOMAIN map' : w \notin DOMAIN map \/ map'[w] # map[w])
          => \/ HAdd
             \/ /\ DaemonStart
                /\ \A w \in DOMAIN map' : map'[w] \in StoredStrings(config)
       /\ \A str \in StoredStrings(config') \ StoredStrings(config) :
             \E w \in DOMAIN map' : map'[w] = str
       /\ listener'.pc = "update"
          => /\ Head(listener'.batch).wd \in DOMAIN map'
             /\ map'[Head(listener'.batch).wd] = listener'.entry
       /\ LUpdate
          => listener'.calls =
                << <<Split(map[Head(listener.batch).wd], ",")[1],
                     Split(map[Head(listener.batch).wd], ",")[2]>> >>
       /\ (/\ LEvent
           /\ Head(listener.batch).mask = "MODIFY"
           /\ Head(listener.batch).wd \notin DOMAIN map)
          => /\ listener'.pc = "next"
             /\ listener'.calls = <<>>
             /\ UNCHANGED <<map, notify, config, daemon, tf_lock, drive_lock>>
      ]_vars

\* C36's case: a modify event that was raised while its path was tracked has
\* been looked up after the unsync of the path, and skipped.
C36_Witness ==
    /\ daemon = "running"
    /\ listener.pc = "next"
    /\ Head(listener.batch).mask = "MODIFY"
    /\ Head(listener.batch).wd \notin DOMAIN map
    /\ ~listener.found
    /\ listener.calls = <<>>

====
